---- MODULE Spec2Model ----
(***************************************************************************)
(* Model of src/src/ecc.py: prime-field arithmetic (FieldElement), the     *)
(* short-Weierstrass group law (Point), the secp256k1 specialisation       *)
(* (S256Field, S256Point, SEC codec) and ECDSA (PrivateKey.sign,           *)
(* S256Point.verify).                                                      *)
(*                                                                         *)
(* The library is purely functional: every operation is an operator, and   *)
(* each specification draws the operation's inputs in Init and applies the *)
(* operation in its actions.  Point.__rmul__'s loop is modelled one        *)
(* iteration per step so that its termination can be stated.               *)
(*                                                                         *)
(* Scaling.  The 256-bit constants of the source cannot be enumerated, so  *)
(* P, N and G are replaced by the smallest curve of the same shape:        *)
(* y^2 = x^3 + 7 over GF(43), 43 = 3 (mod 4), whose group has prime order  *)
(* 31 < 43.  What the source measures against the width of P and N is      *)
(* scaled with it: a coordinate is CoordLen bytes of ByteBits bits (6 bits *)
(* for the 6-bit P, as 32 bytes of 8 bits for the 256-bit P), and the      *)
(* float produced by the true division N / 2 keeps MantBits significand    *)
(* bits (binary64 keeps 53, fewer than the 127 leading one-bits of the     *)
(* real N; the scaled N = 31 is five one-bits).                            *)
(***************************************************************************)
EXTENDS Integers, Sequences, FiniteSets, TLC

VARIABLES field, curve, rmul, sec, smul, ecdsa

vars == <<field, curve, rmul, sec, smul, ecdsa>>

(***************************************************************************)
(* Bounds of the model.                                                    *)
(***************************************************************************)
\* primes of the generic field and curve specifications are 2..MaxPrime
MaxPrime == 7
\* exponents handed to FieldElement.__pow__ are -MaxExp..MaxExp and p-1
MaxExp == 3
\* coefficients handed to Point.__rmul__ are -MaxCoef..MaxCoef
MaxCoef == 5
\* coefficients handed to S256Point.__rmul__ are q*N + i for q in
\* -MaxWrap..MaxWrap and i in -MaxOffset..MaxOffset
MaxWrap == 1
MaxOffset == 2
\* digests handed to sign and verify are 0..MaxDigest
MaxDigest == 3
\* the s of a signature handed to verify directly is -1..MaxSigS or one of
\* N-1, N, N+1
MaxSigS == 2

(***************************************************************************)
(* Python values: None, raised exceptions, the builtin pow.                *)
(***************************************************************************)
None == [none |-> TRUE]

ValueError == [err |-> "ValueError"]

TypeError == [err |-> "TypeError"]

AttributeError == [err |-> "AttributeError"]

IndexError == [err |-> "IndexError"]

IsErr(v) == "err" \in DOMAIN v

(***************************************************************************)
(* The state: one record per component, holding the operands, the results  *)
(* computed so far and the position (op, pc).  A specification works on    *)
(* one record and leaves the others idle.                                  *)
(***************************************************************************)
FieldIdle == [a |-> None, b |-> None, quot |-> None, prod |-> None,
              exp |-> 0, pw |-> None, op |-> "idle"]

CurveIdle == [P |-> None, Q |-> None, R |-> None, pq |-> None, qp |-> None,
              lhs |-> None, rhs |-> None, op |-> "idle"]

RmulIdle == [self |-> None, coefficient |-> 0, coef |-> 0, current |-> None,
             result |-> None, iters |-> 0, pc |-> "idle"]

SecIdle == [point |-> None, compressed |-> FALSE, bytes |-> <<>>,
            intact |-> TRUE, parsed |-> None, op |-> "idle"]

SmulIdle == [pt |-> None, k1 |-> 0, k2 |-> 0, r1 |-> None, r2 |-> None,
             r12 |-> None, sum |-> None, op |-> "idle"]

EcdsaIdle == [key |-> None, z |-> 0, k |-> 0, sig |-> None, vz |-> 0,
              vsig |-> None, changed |-> "none", outcome |-> "none",
              pc |-> "idle"]

\* pow(base, exp, mod) for exp >= 0, by square and multiply
RECURSIVE ModPow(_, _, _)
ModPow(base, exp, mod) ==
    IF exp = 0 THEN 1 % mod
    ELSE LET half == ModPow(base, exp \div 2, mod)
             sq   == (half * half) % mod
         IN  IF exp % 2 = 1 THEN (sq * (base % mod)) % mod ELSE sq

IsPrime(n) == n > 1 /\ \A d \in 2..(n - 1) : n % d # 0

(***************************************************************************)
(* class FieldElement                                                      *)
(***************************************************************************)
FieldElement(num, prime) ==
    IF num >= prime \/ num < 0 THEN ValueError
    ELSE [num |-> num, prime |-> prime]

FieldElement_eq(self, other) ==
    IF other = None THEN FALSE
    ELSE self.num = other.num /\ self.prime = other.prime

FieldElement_ne(self, other) == ~FieldElement_eq(self, other)

FieldElement_add(self, other) ==
    IF self.prime # other.prime THEN TypeError
    ELSE FieldElement((self.num + other.num) % self.prime, self.prime)

FieldElement_sub(self, other) ==
    IF self.prime # other.prime THEN TypeError
    ELSE FieldElement((self.num - other.num) % self.prime, self.prime)

FieldElement_mul(self, other) ==
    IF self.prime # other.prime THEN TypeError
    ELSE FieldElement((self.num * other.num) % self.prime, self.prime)

\* coefficient * self
FieldElement_rmul(self, coefficient) ==
    FieldElement((self.num * coefficient) % self.prime, self.prime)

FieldElement_pow(self, exponent) ==
    LET n == exponent % (self.prime - 1)
    IN  FieldElement(ModPow(self.num, n, self.prime), self.prime)

\* the exponent of the inverse, other.prime - 1 in the off-by-one variant
InvExpOffByOne(prime) == prime - 1

InvExp(prime) == prime - 2

FieldElement_truediv(self, other) ==
    IF self.prime # other.prime THEN TypeError
    ELSE FieldElement(
           (self.num * ModPow(other.num, InvExp(other.prime), other.prime))
               % self.prime,
           self.prime)

(***************************************************************************)
(* Specification of the field operations.  field holds the two operands,   *)
(* the results computed so far and the name of the last operation.         *)
(***************************************************************************)
Primes == {p \in 2..MaxPrime : IsPrime(p)}

Exponents(p) == (-MaxExp..MaxExp) \cup {p - 1}

InitField ==
    /\ \E p \in Primes : \E x, y \in 0..(p - 1) :
           field = [FieldIdle EXCEPT !.a = FieldElement(x, p),
                                     !.b = FieldElement(y, p),
                                     !.op = "init"]
    /\ curve = CurveIdle
    /\ rmul = RmulIdle
    /\ sec = SecIdle
    /\ smul = SmulIdle
    /\ ecdsa = EcdsaIdle

\* quot = a / b
FieldTruediv ==
    /\ field.op = "init"
    /\ field' = [field EXCEPT !.quot = FieldElement_truediv(field.a, field.b),
                              !.op = "truediv"]
    /\ UNCHANGED <<curve, rmul, sec, smul, ecdsa>>

\* prod = quot * b
FieldMulBack ==
    /\ field.op = "truediv"
    /\ field' = [field EXCEPT !.prod = FieldElement_mul(field.quot, field.b),
                              !.op = "mul"]
    /\ UNCHANGED <<curve, rmul, sec, smul, ecdsa>>

\* pw = a ** e
FieldPow ==
    /\ field.op = "init"
    /\ \E e \in Exponents(field.a.prime) :
         field' = [field EXCEPT !.exp = e,
                                !.pw = FieldElement_pow(field.a, e),
                                !.op = "pow"]
    /\ UNCHANGED <<curve, rmul, sec, smul, ecdsa>>

(***************************************************************************)
(* class Point.  A point is [x, y, a, b]; x = y = None is the identity.    *)
(***************************************************************************)
\* __init__: the identity is not validated, any other pair must satisfy
\* y**2 == x**3 + a*x + b, evaluated with FieldElement's operators
Point(x, y, a, b) ==
    IF x = None /\ y = None THEN [x |-> x, y |-> y, a |-> a, b |-> b]
    ELSE IF FieldElement_ne(
              FieldElement_pow(y, 2),
              FieldElement_add(
                  FieldElement_add(FieldElement_pow(x, 3),
                                   FieldElement_mul(a, x)),
                  b))
         THEN ValueError
         ELSE [x |-> x, y |-> y, a |-> a, b |-> b]

Point_eq(self, other) ==
    /\ self.x = other.x
    /\ self.y = other.y
    /\ self.a = other.a
    /\ self.b = other.b

\* the slope of the chord through self and other: (y2 - y1) / (x2 - x1)
ChordSlope(self, other) ==
    FieldElement_truediv(FieldElement_sub(other.y, self.y),
                         FieldElement_sub(other.x, self.x))

\* the slope of the tangent at self: (3 * x * x + a) / (2 * y)
TangentSlope(self) ==
    FieldElement_truediv(
        FieldElement_add(
            FieldElement_mul(FieldElement_rmul(self.x, 3), self.x),
            self.a),
        FieldElement_rmul(self.y, 2))

Point_add(self, other) ==
    IF self.a # other.a \/ self.b # other.b THEN TypeError
    ELSE IF self.x = None THEN other
    ELSE IF other.x = None THEN self
    ELSE IF self.x = other.x /\ self.y # other.y
         THEN Point(None, None, self.a, self.b)
    ELSE IF self.x # other.x
         THEN LET s  == ChordSlope(self, other)
                  x3 == FieldElement_sub(
                            FieldElement_sub(FieldElement_mul(s, s), self.x),
                            other.x)
                  y3 == FieldElement_sub(
                            FieldElement_mul(s, FieldElement_sub(self.x, x3)),
                            self.y)
              IN  Point(x3, y3, self.a, self.b)
    ELSE IF Point_eq(self, other)
         THEN IF self.y = FieldElement_rmul(self.x, 0)
              THEN Point(None, None, self.a, self.b)
              ELSE LET s  == TangentSlope(self)
                       x3 == FieldElement_sub(
                                 FieldElement_mul(s, s),
                                 FieldElement_rmul(self.x, 2))
                       y3 == FieldElement_sub(
                                 FieldElement_mul(s,
                                     FieldElement_sub(self.x, x3)),
                                 self.y)
                   IN  Point(x3, y3, self.a, self.b)
    ELSE None

\* an exception raised by an operand's addition propagates
Point_iadd(self, other) ==
    IF IsErr(self) THEN self
    ELSE IF IsErr(other) THEN other
    ELSE Point_add(self, other)

\* Python's coef & 1 and coef >> 1 on an unbounded integer of either sign
LowBit(coef) == coef % 2

ShiftRight(coef) == coef \div 2

\* one iteration of the while loop of Point.__rmul__
RmulIteration(st) ==
    [coef    |-> ShiftRight(st.coef),
     current |-> Point_iadd(st.current, st.current),
     result  |-> IF LowBit(st.coef) = 1
                 THEN Point_iadd(st.result, st.current)
                 ELSE st.result]

RECURSIVE RmulLoop(_)
RmulLoop(st) == IF st.coef = 0 THEN st.result ELSE RmulLoop(RmulIteration(st))

\* coefficient * self, for a coefficient on which the loop ends
Point_rmul(self, coefficient) ==
    RmulLoop([coef    |-> coefficient,
              current |-> self,
              result  |-> Point(None, None, self.a, self.b)])

(***************************************************************************)
(* Specification of the group law.  The curves are the elliptic curves     *)
(* y^2 = x^3 + a*x + b over the prime fields GF(p), p <= MaxPrime: the     *)
(* discriminant -16 * (4*a^3 + 27*b^2) is not 0 in GF(p).  The points are  *)
(* the identity and the pairs that satisfy the equation and that           *)
(* Point.__init__ accepts.                                                 *)
(***************************************************************************)
IsElliptic(p, a, b) == (16 * (4 * a * a * a + 27 * b * b)) % p # 0

OnCurve(p, a, b, x, y) == (y * y) % p = (x * x * x + a * x + b) % p

Identity(p, a, b) ==
    Point(None, None, FieldElement(a, p), FieldElement(b, p))

CurvePoints(p, a, b) ==
    {Identity(p, a, b)} \cup
    {pt \in {Point(FieldElement(x, p), FieldElement(y, p),
                   FieldElement(a, p), FieldElement(b, p)) :
                 <<x, y>> \in {xy \in (0..(p - 1)) \X (0..(p - 1)) :
                                  OnCurve(p, a, b, xy[1], xy[2])}} :
        ~IsErr(pt)}

Curves == {c \in UNION {{<<p, a, b>> : a, b \in 0..(p - 1)} : p \in Primes} :
              IsElliptic(c[1], c[2], c[3])}

InitCurve ==
    /\ \E c \in Curves : \E p1, p2, p3 \in CurvePoints(c[1], c[2], c[3]) :
           curve = [CurveIdle EXCEPT !.P = p1, !.Q = p2, !.R = p3,
                                     !.op = "init"]
    /\ field = FieldIdle
    /\ rmul = RmulIdle
    /\ sec = SecIdle
    /\ smul = SmulIdle
    /\ ecdsa = EcdsaIdle

\* pq = P + Q and qp = Q + P
CurveAdd ==
    /\ curve.op = "init"
    /\ curve' = [curve EXCEPT !.pq = Point_add(curve.P, curve.Q),
                              !.qp = Point_add(curve.Q, curve.P),
                              !.op = "add"]
    /\ UNCHANGED <<field, rmul, sec, smul, ecdsa>>

\* lhs = (P + Q) + R and rhs = P + (Q + R)
CurveAddThree ==
    /\ curve.op = "add"
    /\ curve' = [curve EXCEPT
                   !.lhs = Point_iadd(curve.pq, curve.R),
                   !.rhs = Point_iadd(curve.P, Point_add(curve.Q, curve.R)),
                   !.op = "add3"]
    /\ UNCHANGED <<field, rmul, sec, smul, ecdsa>>

(***************************************************************************)
(* Specification of Point.__rmul__, one loop iteration per step.           *)
(* rmul.iters counts the iterations and stops counting at MaxIters, so     *)
(* that a loop that does not end stays within finitely many states.        *)
(***************************************************************************)
MaxIters == 6

InitRmul ==
    /\ \E c \in Curves : \E pt \in CurvePoints(c[1], c[2], c[3]) :
         \E k \in -MaxCoef..MaxCoef :
           rmul = [RmulIdle EXCEPT !.self = pt, !.coefficient = k,
                                   !.pc = "call"]
    /\ field = FieldIdle
    /\ curve = CurveIdle
    /\ sec = SecIdle
    /\ smul = SmulIdle
    /\ ecdsa = EcdsaIdle

\* lines 107-109: coef, current and result are initialised
RmulEnter ==
    /\ rmul.pc = "call"
    /\ rmul' = [rmul EXCEPT
                  !.coef = rmul.coefficient,
                  !.current = rmul.self,
                  !.result = Point(None, None, rmul.self.a, rmul.self.b),
                  !.pc = "loop"]
    /\ UNCHANGED <<field, curve, sec, smul, ecdsa>>

\* lines 110-114: the loop condition holds and the body runs once
RmulStep ==
    /\ rmul.pc = "loop"
    /\ rmul.coef # 0
    /\ LET st == RmulIteration([coef |-> rmul.coef,
                                current |-> rmul.current,
                                result |-> rmul.result])
       IN  rmul' = [rmul EXCEPT
                      !.coef = st.coef,
                      !.current = st.current,
                      !.result = st.result,
                      !.iters = IF rmul.iters < MaxIters
                                THEN rmul.iters + 1 ELSE rmul.iters]
    /\ UNCHANGED <<field, curve, sec, smul, ecdsa>>

\* line 115: the loop condition fails and result is returned
RmulReturn ==
    /\ rmul.pc = "loop"
    /\ rmul.coef = 0
    /\ rmul' = [rmul EXCEPT !.pc = "done"]
    /\ UNCHANGED <<field, curve, sec, smul, ecdsa>>

(***************************************************************************)
(* secp256k1, scaled: P, A, B, N, G; class S256Field; class S256Point.     *)
(***************************************************************************)
P == 43

A == 0

B == 7

N == 31

S256Field(num) == FieldElement(num, P)

S256Field_sqrt(self) == FieldElement_pow(self, (P + 1) \div 4)

\* S256Point.__init__ with field elements (or None) for x and y
S256Point(x, y) == Point(x, y, S256Field(A), S256Field(B))

\* S256Point.__init__ with integers for x and y
S256PointOfInts(x, y) ==
    IF IsErr(S256Field(x)) THEN S256Field(x)
    ELSE IF IsErr(S256Field(y)) THEN S256Field(y)
    ELSE Point(S256Field(x), S256Field(y), S256Field(A), S256Field(B))

G == S256PointOfInts(2, 12)

\* coef = coefficient % P, the reduction by the field size instead
CoefModP(coefficient) == coefficient % P

CoefModN(coefficient) == coefficient % N

S256Point_rmul(self, coefficient) == Point_rmul(self, CoefModN(coefficient))

(***************************************************************************)
(* Byte strings are sequences of bytes of ByteBits bits; a coordinate      *)
(* takes CoordLen bytes.                                                   *)
(***************************************************************************)
ByteBits == 3

CoordLen == 2

ByteBase == 2 ^ ByteBits

Bytes == 0..(ByteBase - 1)

\* n.to_bytes(length, "little"), the byte order reversed
RECURSIVE IntToBytesLittle(_, _)
IntToBytesLittle(n, length) ==
    IF length = 0 THEN <<>>
    ELSE <<n % ByteBase>> \o IntToBytesLittle(n \div ByteBase, length - 1)

\* n.to_bytes(length, "big") for 0 <= n < ByteBase ^ length
RECURSIVE IntToBytes(_, _)
IntToBytes(n, length) ==
    IF length = 0 THEN <<>>
    ELSE IntToBytes(n \div ByteBase, length - 1) \o <<n % ByteBase>>

\* int.from_bytes(b, "big")
RECURSIVE IntFromBytes(_)
IntFromBytes(b) ==
    IF Len(b) = 0 THEN 0
    ELSE IntFromBytes(SubSeq(b, 1, Len(b) - 1)) * ByteBase + b[Len(b)]

\* b[from:to], 0-based and clipped to the length of b
Slice(b, from, to) ==
    SubSeq(b, from + 1, IF to < Len(b) THEN to ELSE Len(b))

S256Point_sec(self, compressed) ==
    IF compressed
    THEN IF self.y.num % 2 = 0
         THEN <<2>> \o IntToBytes(self.x.num, CoordLen)
         ELSE <<3>> \o IntToBytes(self.x.num, CoordLen)
    ELSE <<4>> \o IntToBytes(self.x.num, CoordLen)
               \o IntToBytes(self.y.num, CoordLen)

S256Point_parse(sec_bin) ==
    IF Len(sec_bin) = 0 THEN IndexError
    ELSE IF sec_bin[1] = 4
    THEN S256PointOfInts(
             IntFromBytes(Slice(sec_bin, 1, 1 + CoordLen)),
             IntFromBytes(Slice(sec_bin, 1 + CoordLen, 1 + 2 * CoordLen)))
    ELSE LET is_even == sec_bin[1] = 2
             x       == S256Field(IntFromBytes(Slice(sec_bin, 1,
                                                     Len(sec_bin))))
         IN  IF IsErr(x) THEN x
             ELSE LET alpha == FieldElement_add(FieldElement_pow(x, 3),
                                                S256Field(B))
                      beta  == S256Field_sqrt(alpha)
                      other == S256Field(P - beta.num)
                      even_beta == IF beta.num % 2 = 0 THEN beta ELSE other
                      odd_beta  == IF beta.num % 2 = 0 THEN other ELSE beta
                  IN  IF IsErr(other) THEN other
                      ELSE IF is_even THEN S256Point(x, even_beta)
                      ELSE S256Point(x, odd_beta)

(***************************************************************************)
(* Specification of the SEC codec.  sec.point is encoded, the encoding is  *)
(* parsed as it is or after one change to its prefix or its length.        *)
(***************************************************************************)
S256Points ==
    {S256Point(None, None)} \cup
    {pt \in {S256PointOfInts(x, y) : x, y \in 0..(P - 1)} : ~IsErr(pt)}

InitSec ==
    /\ \E pt \in S256Points \ {S256Point(None, None)} : \E c \in BOOLEAN :
           sec = [SecIdle EXCEPT !.point = pt, !.compressed = c, !.op = "init"]
    /\ field = FieldIdle
    /\ curve = CurveIdle
    /\ rmul = RmulIdle
    /\ smul = SmulIdle
    /\ ecdsa = EcdsaIdle

\* bytes = point.sec(compressed)
SecEncode ==
    /\ sec.op = "init"
    /\ sec' = [sec EXCEPT !.bytes = S256Point_sec(sec.point, sec.compressed),
                          !.op = "sec"]
    /\ UNCHANGED <<field, curve, rmul, smul, ecdsa>>

\* the prefix byte is replaced
SecSetPrefix ==
    /\ sec.op = "sec"
    /\ \E b \in Bytes \ {sec.bytes[1]} :
         sec' = [sec EXCEPT !.bytes = <<b>> \o Tail(sec.bytes),
                            !.intact = FALSE, !.op = "changed"]
    /\ UNCHANGED <<field, curve, rmul, smul, ecdsa>>

\* the last bytes are dropped
SecTruncate ==
    /\ sec.op = "sec"
    /\ \E n \in 0..(Len(sec.bytes) - 1) :
         sec' = [sec EXCEPT !.bytes = SubSeq(sec.bytes, 1, n),
                            !.intact = FALSE, !.op = "changed"]
    /\ UNCHANGED <<field, curve, rmul, smul, ecdsa>>

\* a byte is inserted after the prefix or appended
SecExtend ==
    /\ sec.op = "sec"
    /\ \E b \in Bytes :
         \/ sec' = [sec EXCEPT !.bytes = <<sec.bytes[1], b>>
                                             \o Tail(sec.bytes),
                               !.intact = FALSE, !.op = "changed"]
         \/ sec' = [sec EXCEPT !.bytes = sec.bytes \o <<b>>,
                               !.intact = FALSE, !.op = "changed"]
    /\ UNCHANGED <<field, curve, rmul, smul, ecdsa>>

\* parsed = S256Point.parse(bytes)
SecParse ==
    /\ sec.op \in {"sec", "changed"}
    /\ sec' = [sec EXCEPT !.parsed = S256Point_parse(sec.bytes),
                          !.op = "parse"]
    /\ UNCHANGED <<field, curve, rmul, smul, ecdsa>>

(***************************************************************************)
(* Specification of S256Point.__rmul__.                                    *)
(***************************************************************************)
Coefficients ==
    {q * N + i : q \in -MaxWrap..MaxWrap, i \in -MaxOffset..MaxOffset}

InitSmul ==
    /\ \E pt \in S256Points : \E k1, k2 \in Coefficients :
           smul = [SmulIdle EXCEPT !.pt = pt, !.k1 = k1, !.k2 = k2,
                                   !.op = "init"]
    /\ field = FieldIdle
    /\ curve = CurveIdle
    /\ rmul = RmulIdle
    /\ sec = SecIdle
    /\ ecdsa = EcdsaIdle

\* r1 = k1 * pt, r2 = k2 * pt, r12 = (k1 + k2) * pt
SmulMultiply ==
    /\ smul.op = "init"
    /\ smul' = [smul EXCEPT
                  !.r1 = S256Point_rmul(smul.pt, smul.k1),
                  !.r2 = S256Point_rmul(smul.pt, smul.k2),
                  !.r12 = S256Point_rmul(smul.pt, smul.k1 + smul.k2),
                  !.op = "rmul"]
    /\ UNCHANGED <<field, curve, rmul, sec, ecdsa>>

\* sum = r1 + r2
SmulAdd ==
    /\ smul.op = "rmul"
    /\ smul' = [smul EXCEPT !.sum = Point_add(smul.r1, smul.r2),
                            !.op = "add"]
    /\ UNCHANGED <<field, curve, rmul, sec, ecdsa>>

(***************************************************************************)
(* Python's true division of integers: the quotient n / d rounded to the   *)
(* nearest float of MantBits significand bits, ties to even.  A float is   *)
(* [mant, exp], its value mant * 2^exp.                                    *)
(***************************************************************************)
MantBits == 1

FloatExps == -(MantBits + 4)..8

FloatNum(n, e) == IF e < 0 THEN n * 2 ^ (-e) ELSE n

FloatDen(d, e) == IF e < 0 THEN d ELSE d * 2 ^ e

TrueDiv(n, d) ==
    LET e   == CHOOSE i \in FloatExps :
                  /\ 2 ^ (MantBits - 1) * FloatDen(d, i) <= FloatNum(n, i)
                  /\ FloatNum(n, i) < 2 ^ MantBits * FloatDen(d, i)
        num == FloatNum(n, e)
        den == FloatDen(d, e)
        q   == num \div den
        rem == num % den
        up  == 2 * rem > den \/ (2 * rem = den /\ q % 2 = 1)
        m   == IF up THEN q + 1 ELSE q
    IN  IF m = 2 ^ MantBits THEN [mant |-> 2 ^ (MantBits - 1), exp |-> e + 1]
        ELSE [mant |-> m, exp |-> e]

\* i > f for an integer i and a float f, compared exactly
IntGtFloat(i, f) ==
    IF f.exp < 0 THEN i * 2 ^ (-f.exp) > f.mant
    ELSE i > f.mant * 2 ^ f.exp

(***************************************************************************)
(* class Signature, class PrivateKey, S256Point.verify.                    *)
(***************************************************************************)
Signature(r, s) == [r |-> r, s |-> s]

PrivateKey(secret) ==
    [secret |-> secret, point |-> S256Point_rmul(G, secret)]

\* the values deterministic_k can return: the loop leaves with a candidate
\* of the HMAC-SHA256 stream that lies in 1..N-1
Nonces == 1..(N - 1)

\* sign with k the value returned by deterministic_k(z)
PrivateKey_sign(self, z, k) ==
    LET r     == S256Point_rmul(G, k).x.num
        k_inv == ModPow(k, N - 2, N)
        s     == ((z + r * self.secret) * k_inv) % N
    IN  IF IntGtFloat(s, TrueDiv(N, 2)) THEN Signature(r, N - s)
        ELSE Signature(r, s)

\* the point u * G + v * self of verify
VerifyTotal(self, z, sig) ==
    LET s_inv == ModPow(sig.s, N - 2, N)
        u     == (z * s_inv) % N
        v     == (sig.r * s_inv) % N
    IN  Point_add(S256Point_rmul(G, u), S256Point_rmul(self, v))

\* "True", "False", or the exception raised by total.x.num
S256Point_verify(self, z, sig) ==
    LET total == VerifyTotal(self, z, sig)
    IN  IF total.x = None THEN "AttributeError"
        ELSE IF total.x.num = sig.r THEN "True"
        ELSE "False"

(***************************************************************************)
(* Specification of ECDSA.  A key is made; it signs a digest and the       *)
(* signature is verified, as returned or with one of r, s, z changed; or   *)
(* verify is called on the key's point with an arbitrary signature.        *)
(***************************************************************************)
\* digests and signature components are DigestBits wide
DigestBits == CoordLen * ByteBits

Digests == 0..MaxDigest

\* n with bit i flipped, n >= 0
FlipBit(n, i) ==
    IF (n \div 2 ^ i) % 2 = 1 THEN n - 2 ^ i ELSE n + 2 ^ i

InitEcdsa ==
    /\ \E secret \in 1..(N - 1) :
           ecdsa = [EcdsaIdle EXCEPT !.key = PrivateKey(secret), !.pc = "key"]
    /\ field = FieldIdle
    /\ curve = CurveIdle
    /\ rmul = RmulIdle
    /\ sec = SecIdle
    /\ smul = SmulIdle

\* sig = key.sign(z)
EcdsaSign ==
    /\ ecdsa.pc = "key"
    /\ \E z \in Digests : \E k \in Nonces :
         LET sig == PrivateKey_sign(ecdsa.key, z, k)
         IN  ecdsa' = [ecdsa EXCEPT !.z = z, !.k = k, !.sig = sig,
                                    !.vz = z, !.vsig = sig, !.pc = "signed"]
    /\ UNCHANGED <<field, curve, rmul, sec, smul>>

\* one bit of r, s or z is flipped, or r is replaced by r + 1
EcdsaTamper ==
    /\ ecdsa.pc = "signed"
    /\ \/ \E i \in 0..(DigestBits - 1) :
            \/ ecdsa' = [ecdsa EXCEPT
                           !.vsig = Signature(FlipBit(ecdsa.sig.r, i),
                                              ecdsa.sig.s),
                           !.changed = "r", !.pc = "tampered"]
            \/ ecdsa' = [ecdsa EXCEPT
                           !.vsig = Signature(ecdsa.sig.r,
                                              FlipBit(ecdsa.sig.s, i)),
                           !.changed = "s", !.pc = "tampered"]
            \/ ecdsa' = [ecdsa EXCEPT !.vz = FlipBit(ecdsa.z, i),
                                      !.changed = "z", !.pc = "tampered"]
       \/ ecdsa' = [ecdsa EXCEPT
                      !.vsig = Signature(ecdsa.sig.r + 1, ecdsa.sig.s),
                      !.changed = "r+1", !.pc = "tampered"]
    /\ UNCHANGED <<field, curve, rmul, sec, smul>>

\* outcome = key.point.verify(vz, vsig)
EcdsaVerify ==
    /\ ecdsa.pc \in {"signed", "tampered"}
    /\ ecdsa' = [ecdsa EXCEPT
                   !.outcome = S256Point_verify(ecdsa.key.point, ecdsa.vz,
                                                ecdsa.vsig),
                   !.pc = "verified"]
    /\ UNCHANGED <<field, curve, rmul, sec, smul>>

SigRs == 0..(P - 1)

SigSs == (-1..MaxSigS) \cup {N - 1, N, N + 1}

\* outcome = key.point.verify(z, Signature(r, s)) for any z, r, s
EcdsaVerifyAny ==
    /\ ecdsa.pc = "key"
    /\ \E z \in Digests : \E r \in SigRs : \E s \in SigSs :
         ecdsa' = [ecdsa EXCEPT
                     !.vz = z, !.vsig = Signature(r, s), !.changed = "any",
                     !.outcome = S256Point_verify(ecdsa.key.point, z,
                                                  Signature(r, s)),
                     !.pc = "verified"]
    /\ UNCHANGED <<field, curve, rmul, sec, smul>>

(***************************************************************************)
(* The specifications.                                                     *)
(***************************************************************************)
NextField ==
    \/ FieldTruediv
    \/ FieldMulBack
    \/ FieldPow

SpecField == InitField /\ [][NextField]_vars

NextCurve ==
    \/ CurveAdd
    \/ CurveAddThree

SpecCurve == InitCurve /\ [][NextCurve]_vars

NextRmul ==
    \/ RmulEnter
    \/ RmulStep
    \/ RmulReturn

SpecRmul == InitRmul /\ [][NextRmul]_vars

NextSec ==
    \/ SecEncode
    \/ SecSetPrefix
    \/ SecTruncate
    \/ SecExtend
    \/ SecParse

SpecSec == InitSec /\ [][NextSec]_vars

NextSmul ==
    \/ SmulMultiply
    \/ SmulAdd

SpecSmul == InitSmul /\ [][NextSmul]_vars

NextEcdsa ==
    \/ EcdsaSign
    \/ EcdsaTamper
    \/ EcdsaVerify
    \/ EcdsaVerifyAny

SpecEcdsa == InitEcdsa /\ [][NextEcdsa]_vars

(***************************************************************************)
(* Properties.                                                             *)
(***************************************************************************)
InField(e, p) == ~IsErr(e) /\ e # None /\ e.prime = p /\ e.num \in 0..(p - 1)

\* C8: in GF(p), p prime, (a / b) * b == a for b != 0, a / a is the unit
\* element for a != 0, a ** (p - 1) is the unit element for a != 0, and
\* every result is an element of the same field with 0 <= value < p.
DivisionInvertsMultiplication ==
    LET p == field.a.prime
    IN  /\ field.op \in {"truediv", "mul"} => InField(field.quot, p)
        /\ (field.op = "truediv" /\ field.a = field.b /\ field.a.num # 0)
              => field.quot = FieldElement(1, p)
        /\ field.op = "mul" => InField(field.prod, p)
        /\ (field.op = "mul" /\ field.b.num # 0) => field.prod = field.a
        /\ field.op = "pow" => InField(field.pw, p)
        /\ (field.op = "pow" /\ field.exp = p - 1 /\ field.a.num # 0)
              => field.pw = FieldElement(1, p)

\* a quotient by an element other than 0 and 1 was multiplied back
DivisionMultipliedBack ==
    /\ field.op = "mul"
    /\ field.b.num > 1
    /\ field.a.num > 0
    /\ field.quot # field.a
    /\ field.prod = field.a

\* C3: parse(sec(P, compressed)) == P for every point P other than the
\* identity, compressed or not; a compressed encoding parses to the y whose
\* parity its prefix states (2 even, 3 odd).
SecRoundTrip ==
    (sec.op = "parse" /\ sec.intact) =>
        /\ sec.parsed = sec.point
        /\ sec.compressed =>
              /\ sec.bytes[1] \in {2, 3}
              /\ sec.bytes[1] = 2 <=> sec.parsed.y.num % 2 = 0

\* a compressed encoding of a point of odd y was parsed back to the point
SecOddRoundTrip ==
    /\ sec.op = "parse"
    /\ sec.intact
    /\ sec.compressed
    /\ sec.bytes[1] = 3
    /\ sec.bytes[2] > 0
    /\ sec.parsed = sec.point

\* the k-fold sum pt + ... + pt, k >= 0
RECURSIVE KFoldSum(_, _)
KFoldSum(pt, k) ==
    IF k = 0 THEN Point(None, None, pt.a, pt.b)
    ELSE Point_iadd(KFoldSum(pt, k - 1), pt)

\* C5: for every integer k and every point pt of the curve, k * pt is the
\* (k mod N)-fold sum of pt, (k1 + k2) * pt == k1 * pt + k2 * pt, 1 * G == G,
\* N * G is the identity and (N - 1) * G is G with y negated.
ScalarMulModOrder ==
    /\ smul.op \in {"rmul", "add"} =>
          /\ smul.r1 = KFoldSum(smul.pt, smul.k1 % N)
          /\ smul.r12 = KFoldSum(smul.pt, (smul.k1 + smul.k2) % N)
          /\ (smul.pt = G /\ smul.k1 = 1) => smul.r1 = G
          /\ (smul.pt = G /\ smul.k1 = N) => smul.r1 = S256Point(None, None)
          /\ (smul.pt = G /\ smul.k1 = N - 1) =>
                smul.r1 = [G EXCEPT !.y = S256Field(P - G.y.num)]
    /\ smul.op = "add" => smul.sum = smul.r12

\* a negative and a coefficient above N were added and distributed
ScalarMulWrapped ==
    /\ smul.op = "add"
    /\ smul.k1 < 0
    /\ smul.k2 > N
    /\ smul.pt.x # None
    /\ smul.sum.x # None
    /\ smul.sum = smul.r12

\* C1: for every secret in 1..N-1, every digest z and every nonce in
\* 1..N-1, the signature returned by sign(z) verifies on the public point:
\* verify returns True, it neither returns False nor raises.
SignVerifyRoundTrip ==
    (ecdsa.pc = "verified" /\ ecdsa.changed = "none")
        => ecdsa.outcome = "True"

\* C2: after one bit of r, s or z of a signature returned by sign is
\* flipped, or r is replaced by r + 1, verify on the public point returns
\* False: it neither returns True nor raises.
TamperDetected ==
    (ecdsa.pc = "verified" /\ ecdsa.changed \in {"r", "s", "z", "r+1"})
        => ecdsa.outcome = "False"

\* C7: the s of every signature returned by sign is at most floor(N / 2).
SignatureIsLowS == ecdsa.pc = "signed" => 2 * ecdsa.sig.s <= N

\* C9: for every z, r, s and every public point, verify returns True when
\* total = u*G + v*Q is a point other than the identity whose x is r, and
\* returns False in every other case; it does not raise.
VerifyIsTotal ==
    ecdsa.pc = "verified" =>
        LET total == VerifyTotal(ecdsa.key.point, ecdsa.vz, ecdsa.vsig)
        IN  ecdsa.outcome =
               IF total.x # None /\ total.x.num = ecdsa.vsig.r
               THEN "True" ELSE "False"

\* an encoding no sec() call produces: no byte, a prefix other than 2, 3, 4,
\* or a length other than 1+CoordLen (prefix 2, 3) or 1+2*CoordLen (prefix 4)
Malformed(b) ==
    \/ Len(b) = 0
    \/ b[1] \notin {2, 3, 4}
    \/ b[1] \in {2, 3} /\ Len(b) # 1 + CoordLen
    \/ b[1] = 4 /\ Len(b) # 1 + 2 * CoordLen

\* C6: parse fails with an error on every byte string with an unknown
\* prefix or a length that does not fit its prefix; it returns no point.
MalformedRejected ==
    (sec.op = "parse" /\ Malformed(sec.bytes)) => IsErr(sec.parsed)

IsPointOf(pt, crv) ==
    /\ ~IsErr(pt)
    /\ pt # None
    /\ pt.a = crv.a
    /\ pt.b = crv.b
    /\ \/ pt.x = None /\ pt.y = None
       \/ /\ pt.x # None
          /\ pt.y # None
          /\ OnCurve(crv.a.prime, crv.a.num, crv.b.num, pt.x.num, pt.y.num)

\* C4: for all points P, Q, R of one curve, P + Q is a point of the curve,
\* P + Q == Q + P and (P + Q) + R == P + (Q + R).
AdditionIsGroupLaw ==
    /\ curve.op \in {"add", "add3"} =>
          /\ IsPointOf(curve.pq, curve.P)
          /\ curve.pq = curve.qp
    /\ curve.op = "add3" =>
          /\ IsPointOf(curve.lhs, curve.P)
          /\ curve.lhs = curve.rhs

Abs(n) == IF n < 0 THEN -n ELSE n

\* the number of bits of n >= 0
RECURSIVE BitLength(_)
BitLength(n) == IF n = 0 THEN 0 ELSE 1 + BitLength(n \div 2)

\* C10: for every point and every integer coefficient the loop of
\* Point.__rmul__ ends: every iteration brings coef nearer to 0, so that the
\* loop condition fails after finitely many of them; for a coefficient >= 0
\* the loop returns after exactly bit-length(coefficient) iterations and the
\* result is the coefficient-fold sum of the point.
RmulTerminates ==
    /\ [](rmul.pc = "done" /\ rmul.coefficient >= 0 =>
            /\ rmul.iters = BitLength(rmul.coefficient)
            /\ rmul.result = KFoldSum(rmul.self, rmul.coefficient))
    /\ [][(rmul.pc = "loop" /\ rmul'.pc = "loop")
             => Abs(rmul'.coef) < Abs(rmul.coef)]_vars
====
